---- MODULE Spec2Model ----
(***************************************************************************)
(* Case search of the court tracker's acquisition engine:                  *)
(* CourtsDataScraper.search_case_comprehensive (backend/app/scraper.py)    *)
(* over the shared Redis result cache (backend/app/redis_client.py).       *)
(*                                                                         *)
(* A python dict is a function on a finite set of string keys.  None is    *)
(* the one-key record None.  A data_source string is the sequence of its   *)
(* words (the string split at "_"); the data_source None is <<>>.  A       *)
(* descriptive value is [by, v]: v is the value and by is the code path    *)
(* that computed it ("portal": _try_delhi_hc_direct, "synth":              *)
(* _create_portal_informed_sample).  A date is [y, m, d, iso]: iso is      *)
(* FALSE for a datetime.date and TRUE for its ISO string.                  *)
(***************************************************************************)
EXTENDS Integers, Sequences, FiniteSets, TLC

\* ---------------------------------------------------------------- bounds
\* Number of search_case_comprehensive calls (concurrent or one after another).
MaxReq == 2

Reqs == 1..MaxReq

\* What the random.randint draws of one synthesis can give: the two ends of
\* randint(3, 11), randint(1, 28), randint(15, 60) and randint(1, 10).
Seeds ==
    { [month |-> 3, day |-> 1, days |-> 15, hall |-> 1],
      [month |-> 11, day |-> 28, days |-> 60, hall |-> 10] }

\* ---------------------------------------------------------------- inputs
\* The queries the calls are made with: an upper-case and a lower-case
\* spelling of one case, a case type outside the High Court phase, and a
\* year datetime.date refuses.
Queries ==
    { [case_type |-> "WP",  case_number |-> "1", year |-> 2024],
      [case_type |-> "wp",  case_number |-> "1", year |-> 2024],
      [case_type |-> "CRL", case_number |-> "1", year |-> 2024],
      [case_type |-> "CRL", case_number |-> "1", year |-> 0] }

NoQuery == [case_type |-> "", case_number |-> "", year |-> 0]

\* What the three portals can answer.  "exception", "request_error":
\* session.get raises; "non200": another status than 200; the others are
\* pages answered with 200: "ok_no_services" has none of the service links,
\* "accessible" has no cause list naming the case, "case_listed" has one.
HcOutcomes == {"exception", "non200", "ok_no_services", "ok_services"}
DistrictOutcomes == {"exception", "non200", "ok_functional"}
DelhiOutcomes == {"request_error", "accessible", "case_listed"}

\* The outcomes in which the portal gave nothing: the fetch failed, or the page
\* had nothing the extractor recognizes.
FetchFailed == {"exception", "request_error", "non200"}
ExtractedNothing == {"ok_no_services", "accessible"}

\* ---------------------------------------------------------------- values
None == [none |-> TRUE]

Truthy(d) == d # None

\* dict.update: the keys of d2 override those of d1.
Update(d1, d2) ==
    [k \in (DOMAIN d1) \cup (DOMAIN d2) |-> IF k \in DOMAIN d2 THEN d2[k] ELSE d1[k]]

\* str.upper on the case types and the context words in use.
Upper(s) ==
    CASE s = "wp" -> "WP"
      [] s = "crl" -> "CRL"
      [] s = "real" -> "REAL"
      [] s = "search" -> "SEARCH"
      [] s = "attempted" -> "ATTEMPTED"
      [] s = "error" -> "ERROR"
      [] OTHER -> s

\* datetime.date(year, month, day) raises ValueError outside MINYEAR..MAXYEAR.
DateOk(year) == year >= 1 /\ year <= 9999

PyDate(y, m, d) == [y |-> y, m |-> m, d |-> d, iso |-> FALSE]

\* date.today() + timedelta(days=days).
TodayPlus(days) == [today_plus |-> days, iso |-> FALSE]

DateKeys == {"filing_date", "next_hearing_date"}

\* json.dumps(data, default=_json_serializer) followed by json.loads: a date
\* comes back as its ISO string, everything else as it was.
JsonRoundTrip(data) ==
    [k \in DOMAIN data |->
        IF k \in DateKeys
        THEN [data[k] EXCEPT !.v = [data[k].v EXCEPT !.iso = TRUE]]
        ELSE data[k]]

\* ---------------------------------------------------------------- portals
HC == "HIGH_COURT_SERVICES_REAL"
DISTRICT == "DISTRICT_COURT_SERVICES_REAL"
DELHI == "DELHI_HC_DIRECT"

\* The order of the three phases of search_case_comprehensive.
PortalOrder == <<HC, DISTRICT, DELHI>>

PortalIndex(p) == CHOOSE i \in 1..Len(PortalOrder) : PortalOrder[i] = p

\* The case types phase 1 is run for.
HcCaseTypes == {"WP", "CWP", "PIL"}

\* A value an operation raises instead of returning.
Raise == [raise |-> TRUE]

\* _try_high_court_services without its outer except: the connection error
\* leaves the function.
TryHighCourtServicesUncaught(o) ==
    CASE o = "exception" -> Raise
      [] o = "ok_services" ->
            [details |-> "High Court Services portal", portal_accessible |-> TRUE]
      [] OTHER -> None

\* _try_high_court_services: what it returns to the orchestrator.
TryHighCourtServices(o) ==
    CASE o = "exception" ->
            [details |-> "Connection error", portal_accessible |-> FALSE]
      [] o = "ok_services" ->
            [details |-> "High Court Services portal", portal_accessible |-> TRUE]
      [] OTHER -> None

\* _try_ecourts_portal: what it returns to the orchestrator.
TryEcourtsPortal(o) ==
    CASE o = "exception" ->
            [details |-> "Connection error", portal_accessible |-> FALSE]
      [] o = "non200" ->
            [details |-> "Portal responded with status", portal_accessible |-> FALSE]
      [] OTHER ->
            [details |-> "Functional eCourts portal", portal_accessible |-> TRUE]

Portal(v) == [by |-> "portal", v |-> v]

DelhiAccessInfo ==
    [details |-> "Delhi HC accessible", portal_accessible |-> TRUE]

\* The dict _try_delhi_hc_direct builds when a cause list names the case (the
\* parties are the defaults of the branch in which the context names none).
DelhiCaseFound(q) ==
    [ real_case_found |-> TRUE,
      found_in_cause_list |-> TRUE,
      hearing_time |-> "10:30 AM",
      court_name |-> Portal([court |-> "Delhi High Court", context |-> <<>>]),
      court_type |-> Portal("HIGH_COURT"),
      case_status |-> Portal("Listed for Hearing"),
      parties_petitioner |->
          Portal([text |-> "Petitioner in", case_type |-> q.case_type,
                  case_number |-> q.case_number, year |-> q.year]),
      parties_respondent |->
          Portal([text |-> "Respondent", case_type |-> "", case_number |-> "",
                  year |-> 0]),
      next_hearing_date |-> Portal(TodayPlus(1)),
      filing_date |-> Portal(PyDate(q.year, 6, 15)),
      judge_name |-> Portal("Hon'ble Court"),
      court_hall |-> Portal([text |-> "As per cause list", n |-> 0]),
      details |-> "Exact match found in Delhi HC cause list" ]

\* _try_delhi_hc_direct: what it returns to the orchestrator.  date(year, 6, 15)
\* raising inside the loop over the cause lists is caught there, and the
\* function goes on to return the basic access info.
TryDelhiHcDirect(o, q) ==
    CASE o = "request_error" -> None
      [] o = "accessible" -> DelhiAccessInfo
      [] OTHER -> IF DateOk(q.year) THEN DelhiCaseFound(q) ELSE DelhiAccessInfo

\* ---------------------------------------------------------------- synthesis
Synth(v) == [by |-> "synth", v |-> v]

\* court_info.get(case_type, court_info['WP']): looked up by the case type as given.
CourtInfo(case_type) ==
    CASE case_type = "CRL" ->
            [court |-> "District Court Delhi", type |-> "DISTRICT_COURT",
             portal |-> "District Court Services"]
      [] case_type = "CWP" ->
            [court |-> "Punjab and Haryana High Court", type |-> "HIGH_COURT",
             portal |-> "High Court Services"]
      [] case_type \in {"PIL", "CA"} ->
            [court |-> "Supreme Court of India", type |-> "HIGH_COURT",
             portal |-> "High Court Services"]
      [] OTHER ->
            [court |-> "Delhi High Court", type |-> "HIGH_COURT",
             portal |-> "High Court Services"]

\* The portals of the attempts that carry success.
SuccessfulPortals(attempts) ==
    LET ok == SelectSeq(attempts, LAMBDA a : a.success)
    IN  [i \in 1..Len(ok) |-> ok[i].portal]

\* _create_portal_informed_sample; seed stands for its random draws.  It
\* raises when date(year, ...) does.
CreatePortalInformedSample(q, attempts, seed) ==
    IF ~DateOk(q.year) THEN Raise
    ELSE
    LET info == CourtInfo(q.case_type)
    IN  [ found |-> TRUE,
          parties_petitioner |->
              Synth([text |-> "Sample Petitioner in", case_type |-> q.case_type,
                     case_number |-> q.case_number, year |-> q.year]),
          parties_respondent |->
              Synth([text |-> "Sample Respondent in", case_type |-> q.case_type,
                     case_number |-> q.case_number, year |-> q.year]),
          filing_date |-> Synth(PyDate(q.year, seed.month, seed.day)),
          next_hearing_date |-> Synth(TodayPlus(seed.days)),
          case_status |-> Synth("Pending for Arguments"),
          court_name |->
              Synth([court |-> info.court, context |-> SuccessfulPortals(attempts)]),
          court_type |-> Synth(info.type),
          judge_name |-> Synth("Hon'ble Justice Sample Judge"),
          court_hall |-> Synth([text |-> "Court Hall No.", n |-> seed.hall]),
          case_category |->
              IF q.case_type \in HcCaseTypes THEN "Constitutional" ELSE "Regular",
          judgments |-> <<>>,
          real_portal_analysis |-> TRUE,
          recommended_portal |-> info.portal,
          portals_attempted |-> Len(attempts) ]

\* ---------------------------------------------------------------- data_source
DS_DELHI_REAL == <<"DELHI", "HC", "DIRECT", "REAL">>
DS_INFORMED_SAMPLE == <<"REAL", "PORTAL", "INFORMED", "SAMPLE">>
DS_ERROR_FALLBACK == <<"ERROR", "FALLBACK">>

\* ---------------------------------------------------------------- cache keys
CaseKey(case_type, case_number, year) == <<"case", case_type, case_number, year>>

KeyOf(q) == CaseKey(q.case_type, q.case_number, q.year)

Keys == {KeyOf(q) : q \in Queries}

VARIABLES
    redisUp,      \* RedisClient.redis_client is not None
    cache,        \* the Redis keyspace: key -> stored payload, or None
    pc,           \* where each call is
    query,        \* the arguments of each call
    case_data,    \* the call's case_data dict
    ret,          \* the dict the call returned, None before it returns
    attempted,    \* history: the portals the call fetched from, with what happened
    window,       \* history: per key, the payload of the last call that returned
                  \* after a miss, until the TTL of that return has run out
    script,       \* what the portal answers to the successive GETs of one fetch
    calls,        \* history: the session.get calls the fetch has made
    fetched,      \* what the portal function returned, Pending before it returns
    markup,       \* the html_content given to detect_captcha
    detect_out,   \* what detect_captcha returned, Pending before it is called
    image,        \* the challenge image: how its download goes, what OCR reads
    solve_out,    \* what solve_captcha returned, Pending before it is called
    ocr_log,      \* history: the images given to pytesseract, in order
    cl_calls,     \* history: the cause-list requests handled so far
    cl_req,       \* the last cause-list request
    cl_ret,       \* what scrape_cause_list_comprehensive returned to it, Pending
                  \* when the request did not scrape
    db,           \* the rows of the cause_list table, each with the origin and
                  \* the data_source of the entry it was made from (history)
    served,       \* the rows the request read from the table
    cl_resp,      \* the response of the request: the HTTP status and, for 200,
                  \* the CauseListResponse (entries: how many it lists)
    cl_cache,     \* the cause_list:* keys of Redis: key -> stored list, or None
    scrapes,      \* history: the scrape_cause_list_comprehensive calls made
    session,      \* scraper.session: its headers and its cookie jar
    s_pc,         \* where each search request is
    trail,        \* case_data['search_attempts'] of each search request
    sent,         \* history: the GETs sent, each with its request and the
                  \* cookie of the jar it carried
    table,        \* the table given to extract_table_data: its rows of cells, or None
    extracted,    \* the dict extract_table_data returned, Pending before the call
    synth_in,     \* the arguments of one synthesis: the query, the attempts, the draws
    synth_out,    \* the record made from them, Pending before it is made
    queries,      \* the rows of the queries table, the id of a row is its index
    cases,        \* the rows of the cases table
    task          \* the request handlers and background tasks: what each was
                  \* called with and where it is

searchVars == <<redisUp, cache, pc, query, case_data, ret, attempted, window>>
fetchVars == <<script, calls, fetched>>
captchaVars == <<markup, detect_out, image, solve_out, ocr_log>>
causeVars == <<cl_calls, cl_req, cl_ret, db, served, cl_resp>>

scrapeVars == <<cl_cache, scrapes>>
baseVars == <<searchVars, fetchVars, captchaVars, causeVars>>
sessionVars == <<session, s_pc, trail, sent>>
tableVars == <<table, extracted>>
synthVars == <<synth_in, synth_out>>
persistVars == <<queries, cases, task>>
restVars == <<scrapeVars, sessionVars, tableVars, synthVars, persistVars>>

vars == <<baseVars, restVars>>

\* A call that has not returned yet.
Pending == [pending |-> TRUE]

\* The state of the parts of the program a specification leaves alone.
SearchIdle ==
    /\ redisUp = TRUE
    /\ cache = <<>>
    /\ pc = <<>>
    /\ query = <<>>
    /\ case_data = <<>>
    /\ ret = <<>>
    /\ attempted = <<>>
    /\ window = <<>>

FetchIdle ==
    /\ script = <<>>
    /\ calls = <<>>
    /\ fetched = Pending

CaptchaIdle ==
    /\ markup = <<>>
    /\ detect_out = Pending
    /\ image = Pending
    /\ solve_out = Pending
    /\ ocr_log = <<>>

CauseIdle ==
    /\ cl_calls = 0
    /\ cl_req = Pending
    /\ cl_ret = Pending
    /\ db = <<>>
    /\ served = Pending
    /\ cl_resp = Pending

\* No cause list is cached and scrape_cause_list_comprehensive was not called.
ScrapeIdle ==
    /\ cl_cache = <<>>
    /\ scrapes = <<>>

BaseIdle == SearchIdle /\ FetchIdle /\ CaptchaIdle /\ CauseIdle

\* No search request uses the session.
SessionIdle ==
    /\ session = <<>>
    /\ s_pc = <<>>
    /\ trail = <<>>
    /\ sent = <<>>

\* extract_table_data is not called.
TableIdle ==
    /\ table = None
    /\ extracted = Pending

\* No record is synthesized.
SynthIdle ==
    /\ synth_in = Pending
    /\ synth_out = Pending

\* The tables are empty and no request is handled.
PersistIdle ==
    /\ queries = <<>>
    /\ cases = <<>>
    /\ task = <<>>

RestIdle == ScrapeIdle /\ SessionIdle /\ TableIdle /\ SynthIdle /\ PersistIdle

\* ---------------------------------------------------------------- redis_client
\* RedisClient.get_case_data: the stored payload, or None.
GetCaseData(q) == IF redisUp THEN cache[KeyOf(q)] ELSE None

\* RedisClient.set_case_data: the keyspace after setex of the serialized dict.
SetCaseData(q, data) ==
    IF redisUp THEN [cache EXCEPT ![KeyOf(q)] = JsonRoundTrip(data)] ELSE cache

\* RedisClient.invalidate_case_cache: the keyspace after delete.
InvalidateCaseCache(q) ==
    IF redisUp THEN [cache EXCEPT ![KeyOf(q)] = None] ELSE cache

\* ---------------------------------------------------------------- orchestrator
\* The dict search_case_comprehensive starts from after a cache miss.
NewCaseData(q) ==
    [ case_type |-> Upper(q.case_type),
      case_number |-> q.case_number,
      year |-> q.year,
      found |-> FALSE,
      cached |-> FALSE,
      data_source |-> <<>>,
      search_attempts |-> <<>>,
      real_data_found |-> FALSE ]

\* The phases with phase 2 going back to phase 1.
AfterPhaseLoop(phase) ==
    CASE phase = "phase1" -> "phase2"
      [] phase = "phase2" -> "phase1"
      [] OTHER -> "phase3"

\* The straight-line order of the phases: where a call goes on after a phase.
AfterPhase(phase) ==
    CASE phase = "phase1" -> "phase2"
      [] phase = "phase2" -> "phase3"
      [] OTHER -> "phase3"

\* The entry the orchestrator appends for a portal whose result is truthy.
AttemptEntry(portal, result) ==
    [portal |-> portal, success |-> TRUE, details |-> result.details]

\* case_data after one phase: the entry is appended only for a truthy result.
RecordAttempt(cd, portal, result) ==
    IF Truthy(result)
    THEN [cd EXCEPT !["search_attempts"] = Append(@, AttemptEntry(portal, result))]
    ELSE cd

\* The real record with the judge, which the cause list does not name, taken
\* from the sample.
RealRecordSampleJudge(cd, result) ==
    [Update(cd, result) EXCEPT
        !["found"] = TRUE,
        !["real_data_found"] = TRUE,
        !["data_source"] = DS_DELHI_REAL,
        !["judge_name"] = Synth("Hon'ble Justice Sample Judge")]

\* The record returned when the Delhi result carries real_case_found.
RealRecord(cd, result) ==
    [Update(cd, result) EXCEPT
        !["found"] = TRUE,
        !["real_data_found"] = TRUE,
        !["data_source"] = DS_DELHI_REAL]

\* The record of the analysis path: the sample informed by the attempts.
InformedSampleRecord(cd, sample) ==
    [Update(cd, sample) EXCEPT
        !["found"] = TRUE,
        !["data_source"] = DS_INFORMED_SAMPLE]

\* The record of the except path: the sample made from no attempts.
ErrorFallbackRecord(cd, sample) ==
    [Update(Update(cd, [error |-> "exception"]), sample) EXCEPT
        !["found"] = TRUE,
        !["data_source"] = DS_ERROR_FALLBACK]

TypeOK ==
    /\ redisUp \in BOOLEAN
    /\ DOMAIN cache = Keys
    /\ pc \in [Reqs -> {"idle", "phase1", "phase2", "phase3", "done", "raised"}]
    /\ query \in [Reqs -> Queries \cup {NoQuery}]
    /\ DOMAIN window = Keys

Init ==
    /\ redisUp \in BOOLEAN
    /\ cache = [k \in Keys |-> None]
    /\ pc = [r \in Reqs |-> "idle"]
    /\ query = [r \in Reqs |-> NoQuery]
    /\ case_data = [r \in Reqs |-> None]
    /\ ret = [r \in Reqs |-> None]
    /\ attempted = [r \in Reqs |-> <<>>]
    /\ window = [k \in Keys |-> None]
    /\ FetchIdle
    /\ CaptchaIdle
    /\ CauseIdle
    /\ RestIdle

\* Lines 41-65: the cache check; a hit returns the cached dict marked cached.
\* The calls are numbered in the order in which they are made.
SearchCaseStart(r, q) ==
    /\ pc[r] = "idle"
    /\ \A r2 \in Reqs : r2 < r => pc[r2] # "idle"
    /\ query' = [query EXCEPT ![r] = q]
    /\ IF redisUp /\ Truthy(GetCaseData(q))
       THEN /\ ret' = [ret EXCEPT ![r] = [GetCaseData(q) EXCEPT !["cached"] = TRUE]]
            /\ pc' = [pc EXCEPT ![r] = "done"]
            /\ UNCHANGED case_data
       ELSE /\ case_data' = [case_data EXCEPT ![r] = NewCaseData(q)]
            /\ pc' = [pc EXCEPT ![r] = "phase1"]
            /\ UNCHANGED ret
    /\ UNCHANGED <<redisUp, cache, attempted, window>>
    /\ UNCHANGED <<fetchVars, captchaVars, causeVars, restVars>>

\* Lines 154-161: cache the record and return it.
CacheAndReturn(r, cd) ==
    /\ cache' = SetCaseData(query[r], cd)
    /\ case_data' = [case_data EXCEPT ![r] = cd]
    /\ ret' = [ret EXCEPT ![r] = cd]
    /\ pc' = [pc EXCEPT ![r] = "done"]
    /\ window' = [window EXCEPT ![KeyOf(query[r])] = JsonRoundTrip(cd)]

\* Line 123: return the real record.
ReturnReal(r, cd) ==
    /\ case_data' = [case_data EXCEPT ![r] = cd]
    /\ ret' = [ret EXCEPT ![r] = cd]
    /\ pc' = [pc EXCEPT ![r] = "done"]
    /\ window' = [window EXCEPT ![KeyOf(query[r])] = JsonRoundTrip(cd)]
    /\ UNCHANGED cache

\* Lines 146-152: the except path.  The sample is made again; when that
\* raises too, the exception leaves search_case_comprehensive.
ExceptPath(r, cd, seed) ==
    LET sample == CreatePortalInformedSample(query[r], <<>>, seed)
    IN  IF sample = Raise
        THEN /\ case_data' = [case_data EXCEPT ![r] = Update(cd, [error |-> "exception"])]
             /\ pc' = [pc EXCEPT ![r] = "raised"]
             /\ UNCHANGED <<cache, ret, window>>
        ELSE CacheAndReturn(r, ErrorFallbackRecord(cd, sample))

\* Lines 125-144: the analysis of the attempts and the informed sample.
AnalyzeAndRespond(r, cd, seed) ==
    LET sample == CreatePortalInformedSample(query[r], cd.search_attempts, seed)
    IN  IF sample = Raise
        THEN ExceptPath(r, cd, seed)
        ELSE CacheAndReturn(r, InformedSampleRecord(cd, sample))

\* Lines 68-85: phase 1, run for the High Court case types only.
Phase1HighCourt(r) ==
    /\ pc[r] = "phase1"
    /\ IF Upper(query[r].case_type) \in HcCaseTypes
       THEN \E o \in HcOutcomes, seed \in Seeds :
              LET result == TryHighCourtServices(o)
              IN  /\ attempted' = [attempted EXCEPT ![r] = Append(@, [portal |-> HC, outcome |-> o])]
                  /\ IF result = Raise
                     THEN ExceptPath(r, case_data[r], seed)
                     ELSE /\ case_data' = [case_data EXCEPT ![r] = RecordAttempt(@, HC, result)]
                          /\ pc' = [pc EXCEPT ![r] = AfterPhase("phase1")]
                          /\ UNCHANGED <<cache, ret, window>>
       ELSE /\ pc' = [pc EXCEPT ![r] = AfterPhase("phase1")]
            /\ UNCHANGED <<cache, case_data, ret, attempted, window>>
    /\ UNCHANGED <<redisUp, query>>
    /\ UNCHANGED <<fetchVars, captchaVars, causeVars, restVars>>

\* Lines 87-103: phase 2, run for every case type.
Phase2District(r) ==
    /\ pc[r] = "phase2"
    /\ \E o \in DistrictOutcomes, seed \in Seeds :
         LET result == TryEcourtsPortal(o)
         IN  /\ attempted' = [attempted EXCEPT ![r] = Append(@, [portal |-> DISTRICT, outcome |-> o])]
             /\ IF result = Raise
                THEN ExceptPath(r, case_data[r], seed)
                ELSE /\ case_data' = [case_data EXCEPT ![r] = RecordAttempt(@, DISTRICT, result)]
                     /\ pc' = [pc EXCEPT ![r] = AfterPhase("phase2")]
                     /\ UNCHANGED <<cache, ret, window>>
    /\ UNCHANGED <<redisUp, query>>
    /\ UNCHANGED <<fetchVars, captchaVars, causeVars, restVars>>

\* Lines 105-161: phase 3 and, without another suspension, the response.
Phase3DelhiAndRespond(r) ==
    /\ pc[r] = "phase3"
    /\ \E o \in DelhiOutcomes, seed \in Seeds :
         LET result == TryDelhiHcDirect(o, query[r])
             cd == IF result = Raise THEN case_data[r]
                   ELSE RecordAttempt(case_data[r], DELHI, result)
         IN  /\ attempted' = [attempted EXCEPT ![r] = Append(@, [portal |-> DELHI, outcome |-> o])]
             /\ IF result = Raise
                THEN ExceptPath(r, cd, seed)
                ELSE IF Truthy(result) /\ "real_case_found" \in DOMAIN result
                THEN ReturnReal(r, RealRecord(cd, result))
                ELSE AnalyzeAndRespond(r, cd, seed)
    /\ UNCHANGED <<redisUp, query>>
    /\ UNCHANGED <<fetchVars, captchaVars, causeVars, restVars>>

\* The TTL of a key runs out (setex): the entry is gone, and so is the window
\* of the call that returned under it.
ExpireCase(k) ==
    /\ cache[k] # None \/ window[k] # None
    /\ cache' = [cache EXCEPT ![k] = None]
    /\ window' = [window EXCEPT ![k] = None]
    /\ UNCHANGED <<redisUp, pc, query, case_data, ret, attempted>>
    /\ UNCHANGED <<fetchVars, captchaVars, causeVars, restVars>>

\* routers/cases.py refresh_case_data, tasks refresh: the cache entry of a
\* stored query is invalidated.
InvalidateCase(q) ==
    /\ redisUp
    /\ cache[KeyOf(q)] # None
    /\ cache' = InvalidateCaseCache(q)
    /\ window' = [window EXCEPT ![KeyOf(q)] = None]
    /\ UNCHANGED <<redisUp, pc, query, case_data, ret, attempted>>
    /\ UNCHANGED <<fetchVars, captchaVars, causeVars, restVars>>

Next ==
    \/ \E r \in Reqs, q \in Queries : SearchCaseStart(r, q)
    \/ \E r \in Reqs : Phase1HighCourt(r)
    \/ \E r \in Reqs : Phase2District(r)
    \/ \E r \in Reqs : Phase3DelhiAndRespond(r)
    \/ \E k \in Keys : ExpireCase(k)
    \/ \E q \in Queries : InvalidateCase(q)

Spec == Init /\ [][Next]_vars


\* ---------------------------------------------------------------- properties
DescriptiveFields ==
    {"parties_petitioner", "parties_respondent", "filing_date", "next_hearing_date",
     "case_status", "court_name", "court_type", "judge_name"}

\* The record was made, at least in part, by the named path.
MadeBy(rec, path) ==
    \E f \in DescriptiveFields \cap DOMAIN rec : rec[f].by = path

\* A data_source says "real" / says "synthetic" when it has such a word.
NamesReal(ds) == \E i \in 1..Len(ds) : ds[i] = "REAL"
NamesSynthetic(ds) == \E i \in 1..Len(ds) : ds[i] \in {"SYNTHETIC", "FALLBACK", "SAMPLE"}

\* The call went past the cache check (a miss, or no cache).
Missed(r) == case_data[r] # None

AttemptedPortals(r) == {attempted[r][i].portal : i \in 1..Len(attempted[r])}

\* The portals search_case_comprehensive runs for a query, in order.
ConfiguredPortals(q) ==
    IF Upper(q.case_type) \in HcCaseTypes THEN <<HC, DISTRICT, DELHI>>
    ELSE <<DISTRICT, DELHI>>

\* CaseQuery normalization: case_type in upper case.
Normalize(q) == [q EXCEPT !.case_type = Upper(@)]

C2_SyntheticNeverLabelledReal ==
    \A r \in Reqs :
        pc[r] = "done" =>
            /\ MadeBy(ret[r], "synth") =>
                  NamesSynthetic(ret[r].data_source) /\ ~NamesReal(ret[r].data_source)
            /\ MadeBy(ret[r], "portal") =>
                  NamesReal(ret[r].data_source) /\ ~NamesSynthetic(ret[r].data_source)

\* C3: in every returned record all the descriptive fields are there and come
\* from one path: all from the portal extraction or all from the synthesis.
C3_OnePathPerRecord ==
    \A r \in Reqs :
        pc[r] = "done" =>
            /\ DescriptiveFields \subseteq DOMAIN ret[r]
            /\ \E path \in {"portal", "synth"} :
                  \A f \in DescriptiveFields : ret[r][f].by = path

\* C3 witness: one call has returned an extracted record and another a
\* synthesized one.
C3_Witness ==
    \E r1, r2 \in Reqs :
        /\ pc[r1] = "done" /\ MadeBy(ret[r1], "portal")
        /\ pc[r2] = "done" /\ MadeBy(ret[r2], "synth")

\* C4: with the cache available, a call made while the TTL window of an
\* earlier returned call with the same query is open attempts no portal and
\* returns the payload of that call marked cached.
C4_SecondCallServedFromCache ==
    [][\A r \in Reqs :
          (/\ pc[r] = "idle" /\ pc'[r] # "idle"
           /\ redisUp
           /\ window[KeyOf(query'[r])] # None)
          => /\ pc'[r] = "done"
             /\ attempted'[r] = <<>>
             /\ ret'[r] = [window[KeyOf(query'[r])] EXCEPT !["cached"] = TRUE]]_vars

\* C5: with the cache available, a call that returns after a miss has written
\* the record it returns under the key of its query, on every return path.
C5_CachedBeforeReturn ==
    [][\A r \in Reqs :
          (/\ pc[r] # "done" /\ pc'[r] = "done"
           /\ redisUp
           /\ ~ret'[r].cached)
          => cache'[KeyOf(query'[r])] = JsonRoundTrip(ret'[r])]_vars

C7_FixedOrderStopAtFound ==
    \A r \in Reqs :
        /\ \A i, j \in 1..Len(attempted[r]) :
              i < j => PortalIndex(attempted[r][i].portal) < PortalIndex(attempted[r][j].portal)
        /\ pc[r] \in {"idle", "phase1"} => attempted[r] = <<>>
        /\ pc[r] = "phase2" => AttemptedPortals(r) \subseteq {HC}
        /\ pc[r] = "phase3" => AttemptedPortals(r) \subseteq {HC, DISTRICT}
        /\ (Missed(r) /\ case_data[r].found) => pc[r] = "done" /\ ret[r] = case_data[r]

\* C7 witness: a call went through the three portals and returned the record
\* the last one found.
C7_Witness ==
    \E r \in Reqs :
        /\ pc[r] = "done" /\ ret[r].real_data_found
        /\ [i \in 1..Len(attempted[r]) |-> attempted[r][i].portal] = PortalOrder

\* C8: every portal attempt of a call leaves exactly one entry in its
\* search_attempts: the trail names the attempted portals, one entry each.
C8_OneEntryPerAttempt ==
    \A r \in Reqs :
        Missed(r) =>
            [i \in 1..Len(case_data[r].search_attempts) |->
                case_data[r].search_attempts[i].portal]
            = [i \in 1..Len(attempted[r]) |-> attempted[r][i].portal]

\* C9: no attempt that failed (its fetch failed, or the page had nothing to
\* extract) is recorded with a success outcome.
C9_FailureNotRecordedAsSuccess ==
    \A r \in Reqs :
        Missed(r) =>
            \A i \in 1..Len(case_data[r].search_attempts), j \in 1..Len(attempted[r]) :
                (/\ case_data[r].search_attempts[i].portal = attempted[r][j].portal
                 /\ attempted[r][j].outcome \in FetchFailed \cup ExtractedNothing)
                => ~case_data[r].search_attempts[i].success

\* C10: when a call is over after a miss, and an attempt of it failed, every
\* portal configured after the failed one was attempted too, before the
\* fallback was made.
C10_FailureDoesNotAbort ==
    \A r \in Reqs :
        (Missed(r) /\ pc[r] \in {"done", "raised"}) =>
            \A i \in 1..Len(attempted[r]) :
                attempted[r][i].outcome \in FetchFailed =>
                    \A k \in 1..Len(ConfiguredPortals(query[r])) :
                        PortalIndex(ConfiguredPortals(query[r])[k])
                            > PortalIndex(attempted[r][i].portal)
                        => ConfiguredPortals(query[r])[k] \in AttemptedPortals(r)

\* C10 witness: the first portal raised, the other two were attempted, and the
\* call returned the informed sample.
C10_Witness ==
    \E r \in Reqs :
        /\ pc[r] = "done"
        /\ Len(attempted[r]) = 3
        /\ attempted[r][1].outcome = "exception"
        /\ attempted[r][2].outcome \in FetchFailed
        /\ ret[r].data_source = DS_INFORMED_SAMPLE

\* C11: when the cache is unavailable (RedisClient could not connect),
\* search_case_comprehensive never returns a record: no call made while Redis
\* is down ends by returning (it can only fail).
C11_CacheUnavailableIsFatal ==
    \A r \in Reqs : ~redisUp => pc[r] # "done"

\* C23: cache entries are idempotent per key: when a request that missed the
\* cache writes its payload while the key holds the unexpired payload another
\* request wrote after the same miss, the write leaves the stored payload as
\* it was (the two payloads are identical).
C23_IdempotentWrites ==
    [][\A r \in Reqs :
         ( /\ redisUp
           /\ pc[r] # "done"
           /\ pc'[r] = "done"
           /\ ~ret'[r]["cached"]
           /\ cache[KeyOf(query[r])] # None )
         => cache'[KeyOf(query[r])] = cache[KeyOf(query[r])]]_vars

\* ================================================================ one fetch
\* A portal function called against a portal whose answers are scripted: the
\* i-th GET of the fetch gets the i-th response of the script.

\* settings.max_retries, which CourtsDataScraper.__init__ copies.
max_retries == 3

\* The longest script: one response more than a fetch with max_retries retries
\* can consume.
MaxScript == 4

\* What one GET ends in: an exception raised by requests (error), or a
\* response with a status; a 200 page may be a CAPTCHA challenge and may show
\* the service links.
Responses ==
    [status : {200}, error : {""}, captcha : BOOLEAN, services : BOOLEAN]
      \cup [status : {429, 500, 503}, error : {""}, captcha : {FALSE},
            services : {FALSE}]
      \cup [status : {0}, error : {"ConnectionError", "Timeout"},
            captcha : {FALSE}, services : {FALSE}]

Scripts == UNION {[1..n -> Responses] : n \in 1..MaxScript}

\* The failures the retry policy is about.
TransientStatuses == {429, 500, 502, 503, 504}

Transient(resp) == resp.error # "" \/ resp.status \in TransientStatuses

\* Which branch of _try_high_court_services a response takes.
HcOutcome(resp) ==
    IF resp.error # "" THEN "exception"
    ELSE IF resp.status # 200 THEN "non200"
    ELSE IF resp.services THEN "ok_services" ELSE "ok_no_services"

\* Which branch of _try_ecourts_portal a response takes.
DistrictOutcome(resp) ==
    IF resp.error # "" THEN "exception"
    ELSE IF resp.status # 200 THEN "non200"
    ELSE "ok_functional"

\* What the portal function returns when its GET gets resp.
FetchResult(portal, resp) ==
    IF portal = HC THEN TryHighCourtServices(HcOutcome(resp))
    ELSE TryEcourtsPortal(DistrictOutcome(resp))

FetchInit ==
    /\ script \in Scripts
    /\ calls = <<>>
    /\ fetched = Pending
    /\ SearchIdle
    /\ CaptchaIdle
    /\ CauseIdle
    /\ RestIdle

\* _try_high_court_services, lines 163-290: one session.get, then the result.
FetchHighCourt ==
    /\ fetched = Pending
    /\ calls' = Append(calls, [portal |-> HC, response |-> script[Len(calls) + 1]])
    /\ fetched' = FetchResult(HC, script[Len(calls) + 1])
    /\ UNCHANGED script
    /\ UNCHANGED <<searchVars, captchaVars, causeVars, restVars>>

\* _try_ecourts_portal, lines 292-407: one session.get, then the result.
FetchDistrict ==
    /\ fetched = Pending
    /\ calls' = Append(calls, [portal |-> DISTRICT, response |-> script[Len(calls) + 1]])
    /\ fetched' = FetchResult(DISTRICT, script[Len(calls) + 1])
    /\ UNCHANGED script
    /\ UNCHANGED <<searchVars, captchaVars, causeVars, restVars>>

FetchNext ==
    \/ FetchHighCourt
    \/ FetchDistrict

SpecFetch == FetchInit /\ [][FetchNext]_vars

\* The number of transient failures the script starts with.
LeadingFailures(s) ==
    CHOOSE k \in 0..Len(s) :
        /\ \A i \in 1..k : Transient(s[i])
        /\ k = Len(s) \/ ~Transient(s[k + 1])

\* C12: a fetch retries transient failures up to max_retries times: when the
\* portal answers k <= max_retries times 429 and then 200, the fetch returns
\* what the 200 page gives; when it fails more than max_retries times in a
\* row, the fetch raises (NetworkError) instead of returning.
C12_RetryPolicy ==
    fetched # Pending =>
        LET k == LeadingFailures(script)
        IN  /\ ( /\ k <= max_retries
                 /\ k < Len(script)
                 /\ \A i \in 1..k : script[i].status = 429
                 /\ script[k + 1].status = 200 )
                   => fetched = FetchResult(calls[1].portal, script[k + 1])
            /\ k > max_retries => fetched = Raise

\* C13: a fetch whose page is a CAPTCHA challenge is either fetched again
\* exactly once (the pipeline solved it) or its attempt is marked
\* CAPTCHA_UNSOLVED.
C13_CaptchaChallengeHandled ==
    (fetched # Pending /\ calls[1].response.captcha) =>
        \/ Len(calls) = 2
        \/ LET cd == RecordAttempt([search_attempts |-> <<>>], calls[1].portal, fetched)
           IN  \E i \in 1..Len(cd.search_attempts) :
                  cd.search_attempts[i].details = "CAPTCHA_UNSOLVED"

\* ================================================================ captcha
\* utils/captcha_handler.py.  A string is a sequence of pieces; a piece is a
\* keyword of one of the patterns in some letter case, a line break ("NL"), or
\* text no pattern looks at.

\* A str value where None is possible too.
Str(s) == [str |-> s]

\* str.lower() of a piece (re.I).
Lower(piece) ==
    CASE piece \in {"CAPTCHA", "Captcha"} -> "captcha"
      [] piece = "Security" -> "security"
      [] piece = "Code" -> "code"
      [] piece = "Prove" -> "prove"
      [] piece = "Verification" -> "verification"
      [] piece = "Delhi" -> "delhi"
      [] piece \in {"High", "HIGH"} -> "high"
      [] piece = "Court" -> "court"
      [] piece = "District" -> "district"
      [] piece = "Supreme" -> "supreme"
      [] piece = "REAL" -> "real"
      [] piece = "DATA" -> "data"
      [] piece = "REFERENCE" -> "reference"
      [] piece \in {"Petitioner", "PETITIONER"} -> "petitioner"
      [] piece = "Respondent" -> "respondent"
      [] piece = "Appellant" -> "appellant"
      [] piece = "Name" -> "name"
      [] OTHER -> piece

\* re.search(kw, s, re.I) for a pattern that is one keyword.
Has(s, kw) == \E i \in 1..Len(s) : Lower(s[i]) = kw

HasAny(s, kws) == \E kw \in kws : Has(s, kw)

\* re.search('a.*b', s, re.I): a, later b, and no line break in between.
HasThen(s, a, b) ==
    \E i \in 1..Len(s) : \E j \in (i + 1)..Len(s) :
        /\ Lower(s[i]) = a
        /\ Lower(s[j]) = b
        /\ \A k \in (i + 1)..(j - 1) : s[k] # "NL"

Text(words) == [tag |-> "text", text |-> words, attrs |-> <<>>]
Attr(name, value) == [name |-> name, value |-> value]
Tag(tag, attrs) == [tag |-> tag, text |-> <<>>, attrs |-> attrs]

\* The elements the pages are made of.
Elements ==
    { Text(<<"Welcome">>),
      Text(<<"Enter", "CAPTCHA">>),
      Text(<<"Security", "Code">>),
      Text(<<"Security", "NL", "Code">>),
      Text(<<"code", "security">>),
      Text(<<"Prove", "you", "are", "human">>),
      Text(<<"Verification", "image">>),
      Tag("img", <<Attr("id", <<"captcha", "image">>), Attr("src", <<"/img/", "c1.png">>)>>),
      Tag("img", <<Attr("src", <<"/", "Captcha", ".php">>)>>),
      Tag("img", <<Attr("src", <<"/logo.png">>)>>),
      Tag("img", <<Attr("src", <<"/img/", "c1.png">>), Attr("alt", <<"Security", "image">>)>>),
      Tag("input", <<Attr("type", <<"text">>), Attr("name", <<"captcha">>)>>),
      Tag("input", <<Attr("id", <<"security", "code">>)>>),
      Tag("input", <<Attr("name", <<"verify", "code">>)>>),
      Tag("input", <<Attr("name", <<"q">>)>>) }

\* The longest page, in elements.
MaxMarkup == 2

Markups == UNION {[1..n -> Elements] : n \in 0..MaxMarkup}

RECURSIVE Concat(_)
Concat(ss) == IF ss = <<>> THEN <<>> ELSE Head(ss) \o Concat(Tail(ss))

\* The page as the one string the patterns are searched in: the text of the
\* elements and the values of the attributes, in order.
Flat(html) ==
    Concat([i \in 1..Len(html) |->
              html[i].text \o Concat([a \in 1..Len(html[i].attrs) |-> html[i].attrs[a].value])])

\* captcha_patterns, line 37-44.
CaptchaIndicated(html) ==
    \/ Has(Flat(html), "captcha")
    \/ HasThen(Flat(html), "security", "code")
    \/ HasThen(Flat(html), "verification", "image")
    \/ HasThen(Flat(html), "prove", "human")

\* img_patterns[0]: an img tag with an id, class or alt naming captcha or
\* security and, later in the tag, a src.
ImgByMark(e) ==
    /\ e.tag = "img"
    /\ \E i \in 1..Len(e.attrs) : \E j \in (i + 1)..Len(e.attrs) :
          /\ e.attrs[i].name \in {"id", "class", "alt"}
          /\ HasAny(e.attrs[i].value, {"captcha", "security"})
          /\ e.attrs[j].name = "src"

\* img_patterns[1]: an img tag whose src names captcha or security.
ImgBySrc(e) ==
    /\ e.tag = "img"
    /\ \E i \in 1..Len(e.attrs) :
          /\ e.attrs[i].name = "src"
          /\ HasAny(e.attrs[i].value, {"captcha", "security"})

\* The src of the tag: group 1 of either pattern.
SrcOf(e) ==
    LET j == CHOOSE j \in 1..Len(e.attrs) :
                /\ e.attrs[j].name = "src"
                /\ \A k \in (j + 1)..Len(e.attrs) : e.attrs[k].name # "src"
    IN  e.attrs[j].value

\* re.search takes the leftmost match: the first of the elements a pattern
\* matches, 0 when it matches none.
FirstMatch(matches) ==
    IF matches = {} THEN 0
    ELSE CHOOSE i \in matches : \A k \in matches : i <= k

ImgByMarkAt(html) == FirstMatch({i \in 1..Len(html) : ImgByMark(html[i])})
ImgBySrcAt(html) == FirstMatch({i \in 1..Len(html) : ImgBySrc(html[i])})

\* Lines 47-56: the image URL, the first pattern that matches anywhere winning.
ImageUrl(html) ==
    IF ImgByMarkAt(html) # 0 THEN Str(SrcOf(html[ImgByMarkAt(html)]))
    ELSE IF ImgBySrcAt(html) # 0 THEN Str(SrcOf(html[ImgBySrcAt(html)]))
    ELSE None

\* input_patterns[0]: an input tag with an id or name naming captcha or
\* security.  The pattern has no capturing group.
InputByIdOrName(e) ==
    /\ e.tag = "input"
    /\ \E i \in 1..Len(e.attrs) :
          /\ e.attrs[i].name \in {"id", "name"}
          /\ HasAny(e.attrs[i].value, {"captcha", "security"})

\* input_patterns[1]: an input tag with a name naming captcha, code or verify.
InputByName(e) ==
    /\ e.tag = "input"
    /\ \E i \in 1..Len(e.attrs) :
          /\ e.attrs[i].name = "name"
          /\ HasAny(e.attrs[i].value, {"captcha", "code", "verify"})

NameOf(e) ==
    LET j == CHOOSE j \in 1..Len(e.attrs) :
                /\ e.attrs[j].name = "name"
                /\ HasAny(e.attrs[j].value, {"captcha", "code", "verify"})
    IN  e.attrs[j].value

InputByIdOrNameAt(html) ==
    FirstMatch({i \in 1..Len(html) : InputByIdOrName(html[i])})
InputByNameAt(html) == FirstMatch({i \in 1..Len(html) : InputByName(html[i])})

\* The captcha_info dict detect_captcha starts from.
NoCaptchaInfo ==
    [detected |-> FALSE, type |-> None, image_url |-> None, input_field |-> None]

\* detect_captcha, lines 27-69.  Both input patterns contain '(' , so line 66
\* takes match.group(1) for both; input_patterns[0] has no group 1 and
\* match.group(1) raises IndexError.
DetectCaptcha(html) ==
    IF ~CaptchaIndicated(html)
    THEN [detected |-> FALSE, info |-> NoCaptchaInfo]
    ELSE IF InputByIdOrNameAt(html) # 0
    THEN Raise
    ELSE [ detected |-> TRUE,
           info |-> [ detected |-> TRUE,
                      type |-> None,
                      image_url |-> ImageUrl(html),
                      input_field |->
                          IF InputByNameAt(html) # 0
                          THEN Str(NameOf(html[InputByNameAt(html)]))
                          ELSE None ] ]

\* ---------------------------------------------------------------- solving
\* A text pytesseract reads is a sequence of characters.
AlnumChars ==
    { "a", "b", "c", "d", "e", "f", "g", "h", "i", "j", "k", "l", "m", "n", "o",
      "p", "q", "r", "s", "t", "u", "v", "w", "x", "y", "z",
      "A", "B", "C", "D", "E", "F", "G", "H", "I", "J", "K", "L", "M", "N", "O",
      "P", "Q", "R", "S", "T", "U", "V", "W", "X", "Y", "Z",
      "0", "1", "2", "3", "4", "5", "6", "7", "8", "9" }

\* re.sub(r'[^a-zA-Z0-9]', '', text), line 94.
StripNonAlnum(text) == SelectSeq(text, LAMBDA c : c \in AlnumChars)

\* Line 95: the length test on the cleaned text.
MinLen == 4
MaxLen == 8
Acceptable(text) == text # <<>> /\ MinLen <= Len(text) /\ Len(text) <= MaxLen

\* The image-processing steps that make each processed image.
\* _preprocess_image: binary threshold at 127 and a morphological close.
BINARY == {"threshold_binary", "morph_close"}
\* _alternative_preprocessing(image, 0): adaptive Gaussian threshold.
ADAPTIVE == {"adaptive_threshold"}
\* _alternative_preprocessing(image, 1): Laplacian and convertScaleAbs.
LAPLACIAN == {"laplacian", "convert_scale_abs"}
\* _alternative_preprocessing(image, 2): Gaussian blur and Otsu threshold.
OTSU == {"gaussian_blur", "threshold_otsu"}

ProcessedImages == {BINARY, ADAPTIVE, LAPLACIAN, OTSU}

PreprocessImage == BINARY

AlternativePreprocessing(attempt) ==
    CASE attempt = 0 -> ADAPTIVE
      [] attempt = 1 -> LAPLACIAN
      [] OTHER -> OTSU

\* What pytesseract.image_to_string does on one processed image: it raises,
\* or reads a text.
OcrReads ==
    { [raises |-> TRUE,  text |-> <<>>],
      [raises |-> FALSE, text |-> <<>>],
      [raises |-> FALSE, text |-> <<" ", "-", "\n">>],
      [raises |-> FALSE, text |-> <<"a", "1", "\n">>],
      [raises |-> FALSE, text |-> <<"a", "B", "-", "3", " ", "4", "\n">>],
      [raises |-> FALSE, text |-> <<"a", "b", "c", "d", "1", "2", "3", "4">>],
      [raises |-> FALSE, text |-> <<"a", "b", "c", "d", "e", "1", "2", "3", "4">>] }

\* The reads of the images the later attempts make: nothing, or a text of
\* five characters.
FewReads ==
    { [raises |-> FALSE, text |-> <<>>],
      [raises |-> FALSE, text |-> <<"X", "Y", "Z", "7", "8">>] }

\* A challenge image: how the download goes, whether PIL opens it, and what
\* OCR reads on each processed image.
Images ==
    [download : {"raises"}, status : {0}, opens : {FALSE},
     reads : {[p \in ProcessedImages |-> [raises |-> FALSE, text |-> <<>>]]}]
      \cup [download : {"ok"}, status : {404}, opens : {FALSE},
            reads : {[p \in ProcessedImages |-> [raises |-> FALSE, text |-> <<>>]]}]
      \cup [download : {"ok"}, status : {200}, opens : {FALSE},
            reads : {[p \in ProcessedImages |-> [raises |-> FALSE, text |-> <<>>]]}]
      \cup [download : {"ok"}, status : {200}, opens : {TRUE},
            reads : { r \in [ProcessedImages -> OcrReads \cup FewReads] :
                        /\ r[BINARY] \in OcrReads
                        /\ r[ADAPTIVE] \in OcrReads
                        /\ r[LAPLACIAN] \in FewReads \cup {[raises |-> TRUE, text |-> <<>>]}
                        /\ r[OTSU] \in FewReads }]

\* The loop of lines 91-100 from one attempt on: the value returned and the
\* images given to OCR.  An exception of OCR leaves the loop for line 105.
RECURSIVE SolveLoop(_, _, _, _)
SolveLoop(img, attempt, processed, log) ==
    IF attempt >= 3 THEN [out |-> None, log |-> log]
    ELSE LET read == img.reads[processed]
             text == StripNonAlnum(read.text)
         IN  IF read.raises THEN [out |-> None, log |-> Append(log, processed)]
             ELSE IF read.text # <<>> /\ Acceptable(text)
             THEN [out |-> Str(text), log |-> Append(log, processed)]
             ELSE SolveLoop(img, attempt + 1, AlternativePreprocessing(attempt),
                            Append(log, processed))

\* solve_captcha, lines 71-107.
SolveCaptcha(img) ==
    IF img.download = "raises" \/ img.status # 200 \/ ~img.opens
    THEN [out |-> None, log |-> <<>>]
    ELSE SolveLoop(img, 0, PreprocessImage, <<>>)

CaptchaInit ==
    /\ \/ markup \in Markups /\ image = Pending
       \/ markup = <<>> /\ image \in Images
    /\ detect_out = Pending
    /\ solve_out = Pending
    /\ ocr_log = <<>>
    /\ SearchIdle
    /\ FetchIdle
    /\ CauseIdle
    /\ RestIdle

\* A call of detect_captcha on the page.
Detect ==
    /\ detect_out = Pending
    /\ detect_out' = DetectCaptcha(markup)
    /\ UNCHANGED <<markup, image, solve_out, ocr_log>>
    /\ UNCHANGED <<searchVars, fetchVars, causeVars, restVars>>

\* A call of solve_captcha on the URL of the image.
Solve ==
    /\ image # Pending
    /\ solve_out = Pending
    /\ solve_out' = SolveCaptcha(image).out
    /\ ocr_log' = SolveCaptcha(image).log
    /\ UNCHANGED <<markup, image, detect_out>>
    /\ UNCHANGED <<searchVars, fetchVars, causeVars, restVars>>

CaptchaNext ==
    \/ Detect
    \/ Solve

SpecCaptcha == CaptchaInit /\ [][CaptchaNext]_vars

\* C14: the captcha pipeline never raises: detect_captcha returns a
\* descriptor for every page, also for one with an input element whose id or
\* name contains captcha or security, and solve_captcha returns a value
\* (None when the download or OCR fails).
C14_PipelineNeverRaises ==
    /\ detect_out # Raise
    /\ solve_out # Raise

\* C15: on a page that matches none of the patterns detect_captcha returns
\* detected False with no image URL and no input field; on a page that
\* contains 'captcha' in any letter case and no image it returns detected True
\* with image_url None.
C15_DetectNoneAndDetected ==
    detect_out # Pending =>
        /\ ~CaptchaIndicated(markup) =>
              detect_out = [detected |-> FALSE, info |-> NoCaptchaInfo]
        /\ ( /\ Has(Flat(markup), "captcha")
             /\ \A i \in 1..Len(markup) : markup[i].tag # "img" )
              => /\ detect_out # Raise
                 /\ detect_out.detected
                 /\ detect_out.info.image_url = None

\* C16: solve_captcha gives at most 3 images to OCR, the i-th made by the
\* i-th strategy (binary threshold, adaptive threshold, Laplacian with Otsu
\* threshold); it returns the first cleaned text of 4 to 8 characters and
\* None when no read gives one.
C16_ThreeStrategies ==
    solve_out # Pending =>
        /\ Len(ocr_log) <= 3
        /\ \A i, j \in 1..Len(ocr_log) : i # j => ocr_log[i] # ocr_log[j]
        /\ Len(ocr_log) >= 1 => "threshold_binary" \in ocr_log[1]
        /\ Len(ocr_log) >= 2 => "adaptive_threshold" \in ocr_log[2]
        /\ Len(ocr_log) >= 3 => {"laplacian", "threshold_otsu"} \subseteq ocr_log[3]
        /\ solve_out # None =>
              /\ Len(ocr_log) >= 1
              /\ solve_out = Str(StripNonAlnum(image.reads[ocr_log[Len(ocr_log)]].text))
              /\ Acceptable(solve_out.str)
        /\ \A i \in 1..Len(ocr_log) :
              (solve_out = None \/ i < Len(ocr_log))
                 => ~Acceptable(StripNonAlnum(image.reads[ocr_log[i]].text))
                    \/ image.reads[ocr_log[i]].raises

\* ================================================================ cause list
\* scrape_cause_list_comprehensive, the cause_list table, and the endpoint
\* /by-date that uses both.

\* The requests handled in one run.
MaxCalls == 2

\* random.randint(18, 35), line 818.
SampleMin == 18
SampleMax == 35

CauseDates == {PyDate(2026, 11, 4), PyDate(2026, 11, 5)}

\* court_filter: None, the empty string, names in mixed case, a name no court
\* has, and a word of one of the two context notes.
CourtFilters ==
    { None, Str(<<>>), Str(<<"HIGH", "court">>), Str(<<"district">>),
      Str(<<"Supreme">>), Str(<<"error">>) }

\* `if court_filter:`
FilterGiven(f) == f # None /\ f.str # <<>>

\* sub.lower() in s.lower()
ContainsCI(s, sub) ==
    \E i \in 0..(Len(s) - Len(sub)) :
        \A k \in 1..Len(sub) : Lower(s[i + k]) = Lower(sub[k])

\* The two contexts the sample is generated in.
REAL_SEARCH_ATTEMPTED == <<"real", "search", "attempted">>
SEARCH_ERROR == <<"search", "error">>

\* f" ({context.replace('_', ' ')})"
ContextNote(context) == <<"(">> \o context \o <<")">>

\* Lines 808-811.
SampleCourts(context) ==
    << [name |-> <<"Delhi", "High", "Court">> \o ContextNote(context),
        type |-> "HIGH_COURT"],
       [name |-> <<"District", "Court", "Delhi">> \o ContextNote(context),
        type |-> "DISTRICT_COURT"] >>

\* Lines 813-816.
FilteredCourts(courts, f) ==
    IF FilterGiven(f)
    THEN SelectSeq(courts, LAMBDA c : ContainsCI(c.name, f.str))
    ELSE courts

\* What the random draws of one batch can give: the two ends of every range
\* and of every list drawn from.
CauseSeeds ==
    { [num |-> SampleMin, pick |-> "first", number |-> "2000", case_type |-> "WP",
       years_back |-> 1, hour |-> 10, purpose |-> "Arguments", judge |-> 1,
       hall |-> 1],
      [num |-> SampleMax, pick |-> "last", number |-> "8999", case_type |-> "CS",
       years_back |-> 0, hour |-> 16, purpose |-> "Regular Hearing", judge |-> 25,
       hall |-> 15],
      [num |-> SampleMin, pick |-> "alternate", number |-> "5000", case_type |-> "CRL",
       years_back |-> 0, hour |-> 12, purpose |-> "Status Report", judge |-> 7,
       hall |-> 3] }

\* f'SAMPLE_AFTER_{context.upper()}'
SampleDataSource(context) ==
    <<"SAMPLE", "AFTER">> \o [i \in 1..Len(context) |-> Upper(context[i])]

\* Lines 826-840: the i-th entry of the batch.
SampleEntry(target_date, court, context, seed, i) ==
    [ court_type |-> court.type,
      hearing_date |-> target_date,
      case_number |-> seed.number,
      case_type |-> seed.case_type,
      case_year |-> target_date.y - seed.years_back,
      parties |-> [text |-> "Sample Case vs Respondent", n |-> i],
      court_name |-> court.name,
      hearing_time |-> [h |-> seed.hour, m |-> 0],
      hearing_purpose |-> seed.purpose,
      judge_name |-> [text |-> "Hon'ble Justice Sample", n |-> seed.judge],
      court_hall |-> [text |-> "Court Hall", n |-> seed.hall],
      data_source |-> SampleDataSource(context),
      note |-> "Sample entry generated after real cause list search attempt" ]

\* _generate_sample_cause_list_detailed, lines 798-844.  random.choice on an
\* empty list of courts raises IndexError.
GenerateSampleCauseListDetailed(target_date, court_filter, context, seed) ==
    LET courts == FilteredCourts(SampleCourts(context), court_filter)
    IN  IF courts = <<>>
        THEN Raise
        ELSE [entries |->
                [i \in 1..seed.num |->
                    SampleEntry(target_date,
                                IF seed.pick = "first" \/ (seed.pick = "alternate" /\ i % 2 = 1)
                                THEN courts[1]
                                ELSE courts[Len(courts)],
                                context, seed, i)]]

\* What the Delhi High Court site can answer to _get_real_cause_list_data:
\* session.get raises, another status than 200, a page with nothing to
\* extract, a cause-list page naming cases, a main page naming cases.
CauseOutcomes == {"exception", "non200", "no_data", "link_cases", "main_page_cases"}

\* The cases the pages name.
RealCases ==
    << [case_type |-> "WP", case_number |-> "101", case_year |-> 2024],
       [case_type |-> "CRL", case_number |-> "7", case_year |-> 2023] >>

\* Lines 725-740.
RealLinkEntry(target_date, case, seed) ==
    [ court_type |-> "HIGH_COURT",
      hearing_date |-> target_date,
      case_number |-> case.case_number,
      case_type |-> case.case_type,
      case_year |-> case.case_year,
      parties |-> [text |-> "REAL CASE from Delhi HC", n |-> 0],
      court_name |-> <<"Delhi", "High", "Court", "(", "REAL", "DATA", ")">>,
      hearing_time |-> [h |-> seed.hour, m |-> 30],
      hearing_purpose |-> "As per cause list",
      data_source |-> <<"REAL", "DELHI", "HC", "EXTRACTED">>,
      real_extraction |-> TRUE,
      extraction_method |-> "REGEX_CONTENT_MINING",
      source_page |-> "Cause List",
      source_url |-> "http://delhihighcourt.nic.in/causelist" ]

\* Lines 773-785.
RealMainEntry(target_date, case, seed) ==
    [ court_type |-> "HIGH_COURT",
      hearing_date |-> target_date,
      case_number |-> case.case_number,
      case_type |-> case.case_type,
      case_year |-> case.case_year,
      parties |-> [text |-> "REAL REFERENCE from Delhi HC", n |-> 0],
      court_name |-> <<"Delhi", "High", "Court", "(", "REAL", "REFERENCE", ")">>,
      hearing_time |-> [h |-> seed.hour, m |-> 0],
      data_source |-> <<"REAL", "DELHI", "HC", "MAIN", "PAGE">>,
      real_extraction |-> TRUE,
      extraction_method |-> "MAIN_PAGE_CONTENT_MINING" ]

\* _get_real_cause_list_data, lines 645-796: the entries, [] on every
\* failure.  court_filter is not read.
GetRealCauseListData(target_date, court_filter, o, seed) ==
    CASE o = "link_cases" ->
            [i \in 1..Len(RealCases) |-> RealLinkEntry(target_date, RealCases[i], seed)]
      [] o = "main_page_cases" ->
            <<RealMainEntry(target_date, RealCases[1], seed)>>
      [] OTHER -> <<>>

\* scrape_cause_list_comprehensive, lines 617-643: the list it returns, or
\* Raise.  An exception of the first generation is caught at line 637; the
\* second generation is made in the except block and nothing catches what it
\* raises.
ScrapeCauseListComprehensive(target_date, court_filter, o, seed) ==
    LET real_entries == GetRealCauseListData(target_date, court_filter, o, seed)
        first == GenerateSampleCauseListDetailed(target_date, court_filter,
                                                 REAL_SEARCH_ATTEMPTED, seed)
    IN  IF real_entries # <<>> THEN [entries |-> real_entries]
        ELSE IF first # Raise THEN first
        ELSE GenerateSampleCauseListDetailed(target_date, court_filter,
                                             SEARCH_ERROR, seed)

\* An entry the real extraction made (it carries real_extraction).
IsReal(entry) == "real_extraction" \in DOMAIN entry

\* ---------------------------------------------------------------- crud
\* A column value that is not NULL.
Some(v) == [some |-> v]

\* The columns create_cause_list_entries fills from the entry.
Columns ==
    { "court_name", "court_type", "case_number", "case_type", "case_year",
      "parties", "hearing_date", "hearing_time", "court_hall", "judge_name",
      "hearing_purpose", "case_status_in_list", "data_source" }

\* The row with data_source left NULL.
RowWithoutSource(entry_data, now) ==
    [c \in Columns \cup {"scraped_at"} |->
        IF c = "scraped_at" THEN Some(now)
        ELSE IF c \in DOMAIN entry_data /\ c # "data_source" THEN Some(entry_data[c])
        ELSE None]

\* models.CauseList(...) of lines 159-174: entry_data.get(column) for every
\* column, scraped_at the time of the call.
Row(entry_data, now) ==
    [c \in Columns \cup {"scraped_at"} |->
        IF c = "scraped_at" THEN Some(now)
        ELSE IF c \in DOMAIN entry_data THEN Some(entry_data[c])
        ELSE None]

\* CRUDCauseList.create_cause_list_entries: the table after add_all and
\* commit.  Each row is kept with what the entry it was made from said of
\* itself: whether it was extracted, and its data_source.
CreateCauseListEntries(rows, entries, now) ==
    rows \o [i \in 1..Len(entries) |->
                [ row |-> Row(entries[i], now),
                  real |-> IsReal(entries[i]),
                  source |-> entries[i].data_source ]]

\* The court names in the order of ORDER BY court_name.
CourtNameOrder ==
    << <<"Delhi", "High", "Court", "(", "REAL", "DATA", ")">>,
       <<"Delhi", "High", "Court", "(", "REAL", "REFERENCE", ")">>,
       SampleCourts(REAL_SEARCH_ATTEMPTED)[1].name,
       SampleCourts(SEARCH_ERROR)[1].name,
       SampleCourts(REAL_SEARCH_ATTEMPTED)[2].name,
       SampleCourts(SEARCH_ERROR)[2].name >>

\* The sort key of order_by(court_name, hearing_time).
OrderKey(r) ==
    LET rank == CHOOSE i \in 1..Len(CourtNameOrder) :
                    CourtNameOrder[i] = r.row["court_name"].some
    IN  rank * 10000 + r.row["hearing_time"].some.h * 100 + r.row["hearing_time"].some.m

\* CRUDCauseList.get_cause_list_by_date, lines 180-185.
GetCauseListByDate(rows, hearing_date, court_name) ==
    LET selected == SelectSeq(rows, LAMBDA r :
                        /\ r.row["hearing_date"] = Some(hearing_date)
                        /\ FilterGiven(court_name) =>
                              ContainsCI(r.row["court_name"].some, court_name.str))
        keys == [i \in 1..Len(selected) |-> OrderKey(selected[i])]
        order == SortSeq([i \in 1..Len(selected) |-> i],
                         LAMBDA a, b : keys[a] < keys[b])
    IN  [i \in 1..Len(selected) |-> selected[order[i]]]

\* CRUDCauseList.get_court_wise_stats, lines 196-205: the rows of the date
\* counted by court_name.
GetCourtWiseStats(rows, hearing_date) ==
    LET of_date == {i \in 1..Len(rows) : rows[i].row["hearing_date"] = Some(hearing_date)}
        courts == {rows[i].row["court_name"].some : i \in of_date}
    IN  [c \in courts |->
            Cardinality({i \in of_date : rows[i].row["court_name"].some = c})]

\* routers/cause_lists.py lines 68-71: the entries counted by court_name.
CourtStats(entries) ==
    LET courts == {entries[i].court_name : i \in 1..Len(entries)}
    IN  [c \in courts |->
            Cardinality({i \in 1..Len(entries) : entries[i].court_name = c})]

\* schemas.CauseListEntry: the fields without a default.
RequiredFields ==
    { "id", "court_name", "court_type", "case_number", "case_type", "hearing_date",
      "data_source", "scraped_at" }

\* schemas.CauseListEntry(**entry) does not raise ValidationError.
EntryValid(entry) == RequiredFields \subseteq DOMAIN entry

\* HTTPException(500) of the except clause, lines 91-96.
Http500 == [status |-> 500]

\* CauseListResponse of lines 38-45: the rows read with the filter, the
\* statistics of the date.
CachedResponse(rows, existing_entries, hearing_date) ==
    [ status |-> 200,
      total_cases |-> Len(existing_entries),
      court_wise_count |-> GetCourtWiseStats(rows, hearing_date),
      entries |-> Len(existing_entries),
      cached |-> TRUE ]

\* Lines 48-96 after the scraper: an exception of the scraper or of
\* CauseListEntry(**entry) ends in the except clause.
ScrapedResponse(cause_list_data) ==
    IF cause_list_data = Raise THEN Http500
    ELSE IF cause_list_data.entries # <<>>
    THEN IF \A i \in 1..Len(cause_list_data.entries) :
                EntryValid(cause_list_data.entries[i])
         THEN [ status |-> 200,
                total_cases |-> Len(cause_list_data.entries),
                court_wise_count |-> CourtStats(cause_list_data.entries),
                entries |-> Len(cause_list_data.entries),
                cached |-> FALSE ]
         ELSE Http500
    ELSE [ status |-> 200, total_cases |-> 0, court_wise_count |-> <<>>,
           entries |-> 0, cached |-> FALSE ]

CauseInit ==
    /\ cl_calls = 0
    /\ cl_req = Pending
    /\ cl_ret = Pending
    /\ db = <<>>
    /\ served = Pending
    /\ cl_resp = Pending
    /\ SearchIdle
    /\ FetchIdle
    /\ CaptchaIdle
    /\ RestIdle

\* routers/cause_lists.py get_cause_list_by_date, lines 16-96: rows of the
\* date that are less than 6 hours old (fresh, which the time of the request
\* decides) are served; otherwise the scraper is called and what it returns
\* is saved and returned in a CauseListResponse.
CauseListByDate(hearing_date, court_name, o, seed) ==
    /\ cl_calls < MaxCalls
    /\ cl_calls' = cl_calls + 1
    /\ cl_req' = [hearing_date |-> hearing_date, court_name |-> court_name]
    /\ LET existing_entries == GetCauseListByDate(db, hearing_date, court_name)
           cause_list_data ==
               ScrapeCauseListComprehensive(hearing_date, court_name, o, seed)
       IN  /\ served' = [rows |-> existing_entries]
           /\ \E fresh \in IF existing_entries # <<>> THEN BOOLEAN ELSE {FALSE} :
                 IF fresh
                 THEN /\ cl_ret' = Pending
                      /\ cl_resp' = CachedResponse(db, existing_entries, hearing_date)
                      /\ UNCHANGED db
                 ELSE /\ cl_ret' = cause_list_data
                      /\ cl_resp' = ScrapedResponse(cause_list_data)
                      /\ db' = IF cause_list_data = Raise THEN db
                               ELSE CreateCauseListEntries(db, cause_list_data.entries,
                                                           cl_calls + 1)
    /\ UNCHANGED <<searchVars, fetchVars, captchaVars, restVars>>

CauseNext ==
    \E d \in CauseDates, f \in CourtFilters, o \in CauseOutcomes,
       seed \in CauseSeeds :
        CauseListByDate(d, f, o, seed)

SpecCause == CauseInit /\ [][CauseNext]_vars

\* The list the last request got from the scraper is a synthetic batch.
SyntheticReturned ==
    /\ cl_ret # Pending
    /\ cl_ret # Raise
    /\ \A i \in 1..Len(cl_ret.entries) : ~IsReal(cl_ret.entries[i])

\* C17: a synthetic batch has at least 20 and at most 35 entries.
C17_SyntheticBatchSize ==
    SyntheticReturned =>
        Len(cl_ret.entries) >= 20 /\ Len(cl_ret.entries) <= 35

\* C18: scrape_cause_list_comprehensive never raises to its caller, whatever
\* the date and the court filter, also a filter no court name matches.
C18_CauseListNeverRaises ==
    cl_ret # Raise

\* The data_source values the real extraction gives.
RealDataSources ==
    { RealLinkEntry(d, RealCases[1], seed).data_source :
          d \in CauseDates, seed \in CauseSeeds }
      \cup { RealMainEntry(d, RealCases[1], seed).data_source :
                d \in CauseDates, seed \in CauseSeeds }

\* The data_source names the reason in upper case.
EmbedsReason(ds) ==
    \E reason \in {REAL_SEARCH_ATTEMPTED, SEARCH_ERROR} :
        \E i \in 0..(Len(ds) - Len(reason)) :
            \A k \in 1..Len(reason) : ds[i + k] = Upper(reason[k])

\* C19: the data_source of every synthetic entry embeds the fallback reason
\* and differs from every data_source of an extracted entry, in the list the
\* scraper returns, in the rows of the table and in the rows served from it;
\* a row carries the data_source of the entry it was made from, which is one
\* of the extracted entries' values exactly when the entry was extracted.
C19_SyntheticLabelKept ==
    /\ SyntheticReturned =>
          \A i \in 1..Len(cl_ret.entries) :
              /\ EmbedsReason(cl_ret.entries[i].data_source)
              /\ cl_ret.entries[i].data_source \notin RealDataSources
    /\ \A i \in 1..Len(db) :
          /\ db[i].row["data_source"] = Some(db[i].source)
          /\ db[i].real <=> db[i].source \in RealDataSources
    /\ served # Pending =>
          \A i \in 1..Len(served.rows) :
              /\ served.rows[i].row["data_source"] = Some(served.rows[i].source)
              /\ ~served.rows[i].real =>
                    /\ served.rows[i].row["data_source"] # None
                    /\ EmbedsReason(served.rows[i].row["data_source"].some)
                    /\ served.rows[i].row["data_source"].some \notin RealDataSources

\* A request was served, from the table, rows made from synthetic entries.
C19_Witness ==
    /\ served # Pending
    /\ cl_ret = Pending
    /\ \E i \in 1..Len(served.rows) :
          /\ ~served.rows[i].real
          /\ served.rows[i].row["data_source"] = Some(SampleDataSource(SEARCH_ERROR))

\* C20: with a court filter f, the court_name of every entry of the returned
\* list, extracted or synthetic, contains f, letter case ignored.
C20_FilterRespected ==
    (cl_ret # Pending /\ cl_ret # Raise /\ FilterGiven(cl_req.court_name)) =>
        \A i \in 1..Len(cl_ret.entries) :
            ContainsCI(cl_ret.entries[i].court_name, cl_req.court_name.str)


\* The sum of the values of a court_wise_count.
RECURSIVE SumCounts(_)
SumCounts(counts) ==
    IF DOMAIN counts = {} THEN 0
    ELSE LET c == CHOOSE c \in DOMAIN counts : TRUE
         IN  counts[c] + SumCounts([d \in (DOMAIN counts) \ {c} |-> counts[d]])

\* C30: the by-date endpoint answers every request, from a fresh scrape or
\* from the stored rows, with or without a court_name, with a
\* CauseListResponse whose total_cases is the number of its entries and the
\* sum of the values of its court_wise_count.
C30_TotalsAgree ==
    cl_resp # Pending =>
        /\ cl_resp.status = 200
        /\ cl_resp.total_cases = cl_resp.entries
        /\ cl_resp.total_cases = SumCounts(cl_resp.court_wise_count)

\* ---------------------------------------------------------------- cause-list cache
\* The calls of scrape_cause_list_comprehensive one run makes.
MaxScrapes == 2

\* The court_filter arguments of those calls.
ScrapeFilters == {None, Str(<<"district">>)}

\* f"cause_list:{date}:{court_name}"
CauseListKey(date, court_name) == <<"cause_list", date, court_name>>

CauseListKeys == {CauseListKey(d, f) : d \in CauseDates, f \in ScrapeFilters}

\* json.dumps(data, default=self._json_serializer) and json.loads of it: the
\* hearing_date of each entry comes back as its ISO string.
JsonList(data) ==
    [i \in 1..Len(data) |->
        [data[i] EXCEPT !.hearing_date = [@ EXCEPT !.iso = TRUE]]]

\* RedisClient.set_cause_list: the keys after setex of the serialized list.
SetCauseList(date, court_name, data) ==
    IF redisUp
    THEN [cl_cache EXCEPT ![CauseListKey(date, court_name)] =
                              [entries |-> JsonList(data)]]
    ELSE cl_cache

\* RedisClient.get_cause_list: the stored list, or None.
GetCauseList(date, court_name) ==
    IF redisUp THEN cl_cache[CauseListKey(date, court_name)] ELSE None

ScrapeInit ==
    /\ cl_cache = [k \in CauseListKeys |-> None]
    /\ scrapes = <<>>
    /\ BaseIdle
    /\ PersistIdle
    /\ SynthIdle
    /\ TableIdle
    /\ SessionIdle

\* One call of scrape_cause_list_comprehensive, lines 617-643: line 627 calls
\* _get_real_cause_list_data, which sends its GET to the portal (gets: what
\* the portal answered to the GETs of the call); the list is returned at
\* line 632 or 643.  No line of the method reads or writes redis_client.
ScrapeCauseList(target_date, court_filter, o, seed) ==
    /\ Len(scrapes) < MaxScrapes
    /\ scrapes' = Append(scrapes,
                         [ target_date |-> target_date,
                           court_filter |-> court_filter,
                           gets |-> <<o>>,
                           ret |-> ScrapeCauseListComprehensive(target_date,
                                       court_filter, o, seed) ])
    /\ UNCHANGED cl_cache
    /\ UNCHANGED <<baseVars, sessionVars, tableVars, synthVars, persistVars>>

ScrapeNext ==
    \E d \in CauseDates, f \in ScrapeFilters, o \in CauseOutcomes,
       seed \in CauseSeeds :
        ScrapeCauseList(d, f, o, seed)

SpecScrape == ScrapeInit /\ [][ScrapeNext]_vars

\* C21: a cause-list call that returned a list has stored it in the result
\* cache under (date, filter), and a later call with the same date and filter
\* (no TTL has run out in between) sends no GET to a portal and returns the
\* entries of the stored list.
C21_SecondCallFromCache ==
    \A i \in 1..Len(scrapes) :
        scrapes[i].ret # Raise =>
            /\ GetCauseList(scrapes[i].target_date, scrapes[i].court_filter) # None
            /\ \A j \in (i + 1)..Len(scrapes) :
                  ( /\ scrapes[j].target_date = scrapes[i].target_date
                    /\ scrapes[j].court_filter = scrapes[i].court_filter )
                  => /\ scrapes[j].gets = <<>>
                     /\ scrapes[j].ret = [entries |-> JsonList(scrapes[i].ret.entries)]

\* ---------------------------------------------------------------- session
\* self.session.headers.update({...}), lines 28-36: the header names.
SessionHeaders ==
    {"User-Agent", "Accept", "Accept-Language", "Accept-Encoding", "Connection",
     "Cache-Control", "Pragma"}

\* scraper = CourtsDataScraper(), lines 888-889 and 22-39: the one instance
\* every request handler imports, with the one requests.Session it makes.
\* The jar holds, per portal host, the cookie a response has set, or None.
NewSession ==
    [ headers |-> SessionHeaders,
      cookies |-> [p \in {HC, DISTRICT, DELHI} |-> None] ]

\* The portal each phase sends its GET to.
PhasePortal(phase) ==
    CASE phase = "phase1" -> HC
      [] phase = "phase2" -> DISTRICT
      [] OTHER -> DELHI

SessionInit ==
    /\ session = NewSession
    /\ s_pc = [r \in Reqs |-> "idle"]
    /\ trail = [r \in Reqs |-> <<>>]
    /\ sent = <<>>
    /\ BaseIdle
    /\ PersistIdle
    /\ SynthIdle
    /\ TableIdle
    /\ ScrapeIdle

\* Lines 56-65: a request that missed the cache makes its own case_data, with
\* an empty search_attempts.
SessionSearchStart(r) ==
    /\ s_pc[r] = "idle"
    /\ s_pc' = [s_pc EXCEPT ![r] = "phase1"]
    /\ trail' = [trail EXCEPT ![r] = <<>>]
    /\ UNCHANGED <<session, sent>>
    /\ UNCHANGED <<baseVars, scrapeVars, tableVars, synthVars, persistVars>>

\* One phase of a request (lines 68-85, 87-103, 105-121): self.session.get at
\* line 172, 301 or 422 sends the cookie the jar holds for the host and keeps
\* the cookie the response sets (set_cookie); a truthy result is appended to
\* the request's own search_attempts (found).  The request is suspended in
\* asyncio.sleep between the phases (lines 85, 103), where the other requests
\* run.
SessionPhase(r, set_cookie, found) ==
    /\ s_pc[r] \in {"phase1", "phase2", "phase3"}
    /\ LET p == PhasePortal(s_pc[r])
       IN  /\ sent' = Append(sent, [req |-> r, portal |-> p,
                                    headers |-> session.headers,
                                    cookie |-> session.cookies[p]])
           /\ session' = IF set_cookie
                         THEN [session EXCEPT !.cookies[p] = [set_for |-> r]]
                         ELSE session
           /\ trail' = IF found
                       THEN [trail EXCEPT ![r] =
                               Append(@, [portal |-> p, success |-> TRUE, of |-> r])]
                       ELSE trail
    /\ s_pc' = [s_pc EXCEPT ![r] = IF @ = "phase3" THEN "done" ELSE AfterPhase(@)]
    /\ UNCHANGED <<baseVars, scrapeVars, tableVars, synthVars, persistVars>>

SessionNext ==
    \/ \E r \in Reqs : SessionSearchStart(r)
    \/ \E r \in Reqs, set_cookie \in BOOLEAN, found \in BOOLEAN :
          SessionPhase(r, set_cookie, found)

SpecSession == SessionInit /\ [][SessionNext]_vars

\* C22: concurrent requests share no session state and no audit trail: no GET
\* of a request carries a cookie that the response to another request put
\* into the session, and the audit trail of a request holds the entries of
\* that request only.
C22_RequestsIsolated ==
    /\ \A i \in 1..Len(sent) :
          sent[i].cookie # None => sent[i].cookie.set_for = sent[i].req
    /\ \A r \in Reqs : \A k \in 1..Len(trail[r]) : trail[r][k].of = r

\* ---------------------------------------------------------------- table extraction
\* PortalScraper.extract_table_data.  The text of a cell is the sequence of
\* its pieces: words, " " and punctuation marks.

\* The rows one table has at most.
MaxRows == 2

\* The first cells of the rows.
LabelCells ==
    { <<"Petitioner">>, <<"PETITIONER", ":">>, <<" ", "Petitioner">>,
      <<"Petitioner", " ", "Name">>, <<"Appellant">>, <<"Respondent">>,
      <<":">>, <<>> }

\* The second cells of the rows.
ValueCells == { <<"Ram", " ", "Kumar">>, <<"State">>, <<"State", " ">>, <<>> }

\* The rows: one cell (a heading), two cells, three cells.
TableRows ==
    { <<l>> : l \in LabelCells } \cup
    { <<l, v>> : l \in LabelCells, v \in ValueCells } \cup
    { <<<<"Respondent">>, <<"State">>, <<"Ram", " ", "Kumar">>>> }

RECURSIVE LStrip(_)
LStrip(text) ==
    IF text # <<>> /\ Head(text) = " " THEN LStrip(Tail(text)) ELSE text

RECURSIVE RStrip(_)
RStrip(text) ==
    IF text # <<>> /\ text[Len(text)] = " "
    THEN RStrip(SubSeq(text, 1, Len(text) - 1))
    ELSE text

\* get_text(strip=True)
GetTextStrip(cell) == RStrip(LStrip(cell))

PunctuationMarks == {":", "(", ")", "."}

\* re.sub(r'[^a-z0-9\s]', '', key).replace(' ', '_') of the lower-cased text
NormalizeKey(text) ==
    LET lower == [i \in 1..Len(text) |-> Lower(text[i])]
        kept == SelectSeq(lower, LAMBDA piece : piece \notin PunctuationMarks)
    IN  [i \in 1..Len(kept) |-> IF kept[i] = " " THEN "_" ELSE kept[i]]

\* Lines 19-27 for the first n rows: data after the loop has handled them.
RECURSIVE ExtractRows(_, _)
ExtractRows(rows, n) ==
    IF n = 0 THEN <<>>
    ELSE LET data == ExtractRows(rows, n - 1)
             cols == rows[n]
         IN  IF Len(cols) >= 2
             THEN LET key == NormalizeKey(GetTextStrip(cols[1]))
                      value == GetTextStrip(cols[2])
                  IN  IF key # <<>> /\ value # <<>>
                      THEN Update(data, [k \in {key} |-> value])
                      ELSE data
             ELSE data

\* extract_table_data, lines 12-28.
ExtractTableData(t) ==
    IF t = None THEN <<>> ELSE ExtractRows(t.rows, Len(t.rows))

\* The tables: None and the tables of up to MaxRows rows.
Tables ==
    {None} \cup
    { [rows |-> rs] : rs \in UNION { [1..n -> TableRows] : n \in 0..MaxRows } }

TableInit ==
    /\ table \in Tables
    /\ extracted = Pending
    /\ BaseIdle
    /\ PersistIdle
    /\ SynthIdle
    /\ ScrapeIdle
    /\ SessionIdle

ExtractTable ==
    /\ extracted = Pending
    /\ extracted' = [data |-> ExtractTableData(table)]
    /\ UNCHANGED table
    /\ UNCHANGED <<baseVars, scrapeVars, sessionVars, synthVars, persistVars>>

TableNext == ExtractTable

SpecTable == TableInit /\ [][TableNext]_vars

\* The first cells that name the petitioner and those that name the
\* respondent.
PetitionerLabel(cell) ==
    \E i \in 1..Len(cell) : Lower(cell[i]) \in {"petitioner", "appellant", "plaintiff"}

RespondentLabel(cell) ==
    \E i \in 1..Len(cell) : Lower(cell[i]) \in {"respondent", "defendant", "appellee"}

\* The dict has the field with the value.
Yields(data, field, v) == <<field>> \in DOMAIN data /\ data[<<field>>] = v

\* C24: every row of two cells whose first cell is a petitioner label and
\* whose second cell is the text v (not empty) yields petitioner = v, every such row with a
\* respondent label yields respondent = v, and the table
\* [['Petitioner', 'Ram Kumar'], ['Respondent', 'State']] yields
\* petitioner = 'Ram Kumar' and respondent = 'State'.
C24_RowsMapByLabel ==
    (extracted # Pending /\ table # None) =>
        /\ \A i \in 1..Len(table.rows) :
              LET cols == table.rows[i]
                  v == GetTextStrip(cols[2])
              IN  (Len(cols) = 2 /\ v # <<>>) =>
                    /\ PetitionerLabel(cols[1]) =>
                          Yields(extracted.data, "petitioner", v)
                    /\ RespondentLabel(cols[1]) =>
                          Yields(extracted.data, "respondent", v)
        /\ table.rows = << <<<<"Petitioner">>, <<"Ram", " ", "Kumar">>>>,
                           <<<<"Respondent">>, <<"State">>>> >> =>
              /\ Yields(extracted.data, "petitioner", <<"Ram", " ", "Kumar">>)
              /\ Yields(extracted.data, "respondent", <<"State">>)

\* ---------------------------------------------------------------- synthesis
\* The informed sample record as a function of the arguments of
\* search_case_comprehensive, of the attempts made and of the random draws.

\* The case types given: the keys of court_info, lower-case spellings of two
\* of them, and a type court_info does not have.
SynthCaseTypes == {"WP", "wp", "CWP", "PIL", "CRL", "crl", "CA", "XYZ"}

SynthQueries ==
    [case_type : SynthCaseTypes, case_number : {"1", "77"}, year : {2024, 0}]

\* case_data['search_attempts'] when the sample is made: no portal gave a
\* truthy result, or the district portal did.
SynthAttempts ==
    { <<>>, <<AttemptEntry(DISTRICT, TryEcourtsPortal("ok_functional"))>> }

SynthInit ==
    /\ synth_in \in [q : SynthQueries, attempts : SynthAttempts, seed : Seeds]
    /\ synth_out = Pending
    /\ BaseIdle
    /\ PersistIdle
    /\ ScrapeIdle
    /\ SessionIdle
    /\ TableIdle

\* Lines 56-65 and 125-144: case_data is made from the arguments, the sample
\* from the case type as given, and the record is case_data updated with the
\* sample.  The sample raises for a year date() refuses, on the except path
\* again (lines 146-152).
Synthesize ==
    /\ synth_out = Pending
    /\ LET q == synth_in.q
           cd == [NewCaseData(q) EXCEPT !["search_attempts"] = synth_in.attempts]
           sample == CreatePortalInformedSample(q, cd.search_attempts, synth_in.seed)
       IN  synth_out' = IF sample = Raise THEN Raise
                        ELSE [record |-> InformedSampleRecord(cd, sample)]
    /\ UNCHANGED synth_in
    /\ UNCHANGED <<baseVars, scrapeVars, sessionVars, tableVars, persistVars>>

SynthNext == Synthesize

SpecSynth == SynthInit /\ [][SynthNext]_vars

\* The keys of court_info.
MappedCaseTypes == {"WP", "CWP", "PIL", "CRL", "CA"}

ApiQueries ==
    {q \in Queries : Upper(q.case_type) = q.case_type /\ q.year >= 1950 /\ q.year <= 2030}

\* The ids the refresh endpoint is called with.
QueryIds == 1..MaxReq

\* crud_query.create_query, lines 15-28.
CreateQuery(qs, q) ==
    Append(qs, [case_type |-> Upper(q.case_type), case_number |-> q.case_number,
                year |-> q.year, status |-> "pending", recent |-> TRUE])

\* crud_query.get_query_by_case_details, lines 34-42: the id of the first
\* matching row, 0 for None.
GetQueryByCaseDetails(qs, q) ==
    LET matching == {i \in 1..Len(qs) :
                        /\ qs[i].case_type = Upper(q.case_type)
                        /\ qs[i].case_number = q.case_number
                        /\ qs[i].year = q.year}
    IN  IF matching = {} THEN 0
        ELSE CHOOSE i \in matching : \A j \in matching : i <= j

\* crud_query.update_query_status, lines 44-56: status and updated_at.
UpdateQueryStatus(qs, query_id, status) ==
    [qs EXCEPT ![query_id] = [@ EXCEPT !.status = status, !.recent = TRUE]]

\* crud_case.get_case_by_query, lines 94-96: the index of the row, 0 for None.
GetCaseByQuery(cs, query_id) ==
    LET matching == {i \in 1..Len(cs) : cs[i].query_id = query_id}
    IN  IF matching = {} THEN 0
        ELSE CHOOSE i \in matching : \A j \in matching : i <= j

\* crud_case.create_case, lines 68-92.
CreateCase(cs, query_id, cd) ==
    Append(cs, [query_id |-> query_id, data_source |-> cd.data_source])

\* crud_case.update_case, lines 98-108: Query.update is given the whole
\* case_data dict, whose keys found, cached, search_attempts, ... are no
\* columns of cases; it raises, the except clause rolls back and returns
\* False.
UpdateCase(cs, case_id, cd) == cs

\* The query a row of queries was made for.
QueryOf(row) ==
    [case_type |-> row.case_type, case_number |-> row.case_number, year |-> row.year]

\* What search_case_comprehensive returns after a cache miss: the informed
\* sample, or the real record of the Delhi High Court.
ScrapedRecords(q) ==
    { InformedSampleRecord(NewCaseData(q), CreatePortalInformedSample(q, <<>>, seed)) :
        seed \in Seeds }
    \cup
    { LET result == TryDelhiHcDirect("case_listed", q)
      IN  RealRecord(RecordAttempt(NewCaseData(q), DELHI, result), result) }

\* Lines 47-54 of the scraper: the call is answered from the cache.
CacheHit(q) == redisUp /\ Truthy(GetCaseData(q))

\* Lines 154-155 of the scraper: the sample is cached, the real record
\* (returned at line 123) is not.
CacheAfterScrape(q, rec) ==
    IF rec.data_source = DS_DELHI_REAL THEN cache ELSE SetCaseData(q, rec)

\* search_case after its await, routers/cases.py lines 56-119 (main.py
\* 143-206): the tables and where the handler ends.  db_fails: the commit
\* of create_log raises and the except clause answers HTTP 500.
SearchOutcome(qs, cs, query_id, cd, db_fails) ==
    IF db_fails
    THEN [queries |-> qs, cases |-> cs, pc |-> "http500"]
    ELSE IF cd.found
    THEN LET existing_case == GetCaseByQuery(cs, query_id)
         IN  [queries |-> UpdateQueryStatus(qs, query_id, "completed"),
              cases |-> IF existing_case # 0 THEN UpdateCase(cs, existing_case, cd)
                        ELSE CreateCase(cs, query_id, cd),
              pc |-> "done"]
    ELSE [queries |-> UpdateQueryStatus(qs, query_id, "failed"), cases |-> cs,
          pc |-> "done"]

\* search_case_real after its await, main.py lines 314-346.
SearchRealOutcome(qs, cs, query_id, cd, db_fails) ==
    IF db_fails
    THEN [queries |-> qs, cases |-> cs, pc |-> "http500"]
    ELSE [queries |-> UpdateQueryStatus(qs, query_id,
                         IF cd.found THEN "completed" ELSE "attempted"),
          cases |-> cs, pc |-> "done"]

\* _refresh_case_background after its await, routers/cases.py lines 204-216.
\* db_fails: get_case_by_query raises and the except clause sets failed.
RefreshOutcome(qs, cs, query_id, cd, db_fails) ==
    IF db_fails
    THEN [queries |-> UpdateQueryStatus(qs, query_id, "failed"), cases |-> cs,
          pc |-> "done"]
    ELSE IF cd.found
    THEN LET existing_case == GetCaseByQuery(cs, query_id)
         IN  [queries |-> UpdateQueryStatus(qs, query_id, "completed"),
              cases |-> IF existing_case # 0 THEN UpdateCase(cs, existing_case, cd)
                        ELSE cs,
              pc |-> "done"]
    ELSE [queries |-> UpdateQueryStatus(qs, query_id, "failed"), cases |-> cs,
          pc |-> "done"]

NoTask == [kind |-> "none", pc |-> "idle", q |-> NoQuery, query_id |-> 0,
           scrape |-> "none"]

PersistInit ==
    /\ queries = <<>>
    /\ cases = <<>>
    /\ task = [r \in Reqs |-> NoTask]
    /\ redisUp = TRUE
    /\ cache = [k \in Keys |-> None]
    /\ pc = <<>>
    /\ query = <<>>
    /\ case_data = <<>>
    /\ ret = <<>>
    /\ attempted = <<>>
    /\ window = <<>>
    /\ FetchIdle
    /\ CaptchaIdle
    /\ CauseIdle
    /\ ScrapeIdle
    /\ SessionIdle
    /\ TableIdle
    /\ SynthIdle

\* What the handlers of this part leave alone.
PersistFrame ==
    UNCHANGED <<redisUp, pc, query, case_data, ret, attempted, window, fetchVars,
                captchaVars, causeVars, scrapeVars, sessionVars, tableVars,
                synthVars>>

\* The handler ends: its outcome is written.
Finish(r, kind, q, query_id, scrape, out) ==
    /\ queries' = out.queries
    /\ cases' = out.cases
    /\ task' = [task EXCEPT ![r] = [kind |-> kind, pc |-> out.pc, q |-> q,
                                    query_id |-> query_id, scrape |-> scrape]]

\* The handler awaits the scraper, which missed the cache.
Await(r, kind, q, query_id, qs, at) ==
    /\ queries' = qs
    /\ task' = [task EXCEPT ![r] = [kind |-> kind, pc |-> at, q |-> q,
                                    query_id |-> query_id, scrape |-> "miss"]]
    /\ UNCHANGED <<cases, cache>>

\* POST /search, routers/cases.py lines 16-54 (main.py 104-140): the
\* database short-cut, the query record, and the call of the scraper; on a
\* cache hit the handler goes on to its end at once.
SearchCase(r, q, db_fails) ==
    /\ task[r].pc = "idle"
    /\ LET existing_query == GetQueryByCaseDetails(queries, q)
       IN  IF /\ existing_query # 0
              /\ queries[existing_query].status = "completed"
              /\ queries[existing_query].recent
           THEN /\ task' = [task EXCEPT ![r] =
                              [kind |-> "search", pc |-> "done", q |-> q,
                               query_id |-> existing_query, scrape |-> "none"]]
                /\ UNCHANGED <<queries, cases, cache>>
           ELSE LET qs == IF existing_query = 0 THEN CreateQuery(queries, q)
                          ELSE UpdateQueryStatus(queries, existing_query, "pending")
                    query_id == IF existing_query = 0 THEN Len(queries) + 1
                                ELSE existing_query
                IN  IF CacheHit(q)
                    THEN /\ Finish(r, "search", q, query_id, "hit",
                                   SearchOutcome(qs, cases, query_id,
                                       [GetCaseData(q) EXCEPT !["cached"] = TRUE],
                                       db_fails))
                         /\ UNCHANGED cache
                    ELSE Await(r, "search", q, query_id, qs, "scraping")
    /\ PersistFrame

\* POST /search-real, main.py lines 295-312: a query record is created, then
\* the scraper is called.
SearchCaseReal(r, q, db_fails) ==
    /\ task[r].pc = "idle"
    /\ LET qs == CreateQuery(queries, q)
           query_id == Len(queries) + 1
       IN  IF CacheHit(q)
           THEN /\ Finish(r, "search_real", q, query_id, "hit",
                          SearchRealOutcome(qs, cases, query_id,
                              [GetCaseData(q) EXCEPT !["cached"] = TRUE], db_fails))
                /\ UNCHANGED cache
           ELSE Await(r, "search_real", q, query_id, qs, "scraping")
    /\ PersistFrame

\* The scraper returns to a search handler after a miss, and the handler
\* runs to its end.
SearchScraped(r, rec, db_fails) ==
    /\ task[r].pc = "scraping"
    /\ rec \in ScrapedRecords(task[r].q)
    /\ cache' = CacheAfterScrape(task[r].q, rec)
    /\ Finish(r, task[r].kind, task[r].q, task[r].query_id, "miss",
              IF task[r].kind = "search"
              THEN SearchOutcome(queries, cases, task[r].query_id, rec, db_fails)
              ELSE SearchRealOutcome(queries, cases, task[r].query_id, rec, db_fails))
    /\ PersistFrame

\* POST /{query_id}/refresh, routers/cases.py lines 160-193: 404 for an
\* unknown id; otherwise the cache entry is invalidated and the background
\* task is added, which starts after the response.
RefreshCaseData(r, query_id) ==
    /\ task[r].pc = "idle"
    /\ IF query_id > Len(queries)
       THEN /\ task' = [task EXCEPT ![r] =
                          [kind |-> "refresh", pc |-> "http404", q |-> NoQuery,
                           query_id |-> query_id, scrape |-> "none"]]
            /\ UNCHANGED cache
       ELSE /\ cache' = InvalidateCaseCache(QueryOf(queries[query_id]))
            /\ task' = [task EXCEPT ![r] =
                          [kind |-> "refresh", pc |-> "scheduled",
                           q |-> QueryOf(queries[query_id]),
                           query_id |-> query_id, scrape |-> "none"]]
    /\ UNCHANGED <<queries, cases>>
    /\ PersistFrame

\* _refresh_case_background, lines 195-202: pending, then the scraper.
RefreshBackground(r, db_fails) ==
    /\ task[r].pc = "scheduled"
    /\ LET qs == UpdateQueryStatus(queries, task[r].query_id, "pending")
       IN  IF CacheHit(task[r].q)
           THEN /\ Finish(r, "refresh", task[r].q, task[r].query_id, "hit",
                          RefreshOutcome(qs, cases, task[r].query_id,
                              [GetCaseData(task[r].q) EXCEPT !["cached"] = TRUE],
                              db_fails))
                /\ UNCHANGED cache
           ELSE Await(r, "refresh", task[r].q, task[r].query_id, qs, "bg_scraping")
    /\ PersistFrame

\* The scraper returns to the background task after a miss.
RefreshScraped(r, rec, db_fails) ==
    /\ task[r].pc = "bg_scraping"
    /\ rec \in ScrapedRecords(task[r].q)
    /\ cache' = CacheAfterScrape(task[r].q, rec)
    /\ Finish(r, "refresh", task[r].q, task[r].query_id, "miss",
              RefreshOutcome(queries, cases, task[r].query_id, rec, db_fails))
    /\ PersistFrame

\* A day passes while no scrape is under way: every updated_at is more than
\* 24 hours old and every cache entry (cache_ttl_hours = 24) has run out.
DayPasses ==
    /\ \A r \in Reqs : task[r].pc \notin {"scraping", "scheduled", "bg_scraping"}
    /\ \E i \in 1..Len(queries) : queries[i].recent
    /\ queries' = [i \in 1..Len(queries) |-> [queries[i] EXCEPT !.recent = FALSE]]
    /\ cache' = [k \in Keys |-> None]
    /\ UNCHANGED <<cases, task>>
    /\ PersistFrame

PersistNext ==
    \/ \E r \in Reqs, q \in ApiQueries, db_fails \in BOOLEAN : SearchCase(r, q, db_fails)
    \/ \E r \in Reqs, q \in ApiQueries, db_fails \in BOOLEAN : SearchCaseReal(r, q, db_fails)
    \/ \E r \in Reqs, q \in ApiQueries, db_fails \in BOOLEAN :
          \E rec \in ScrapedRecords(q) : SearchScraped(r, rec, db_fails)
    \/ \E r \in Reqs, query_id \in QueryIds : RefreshCaseData(r, query_id)
    \/ \E r \in Reqs, db_fails \in BOOLEAN : RefreshBackground(r, db_fails)
    \/ \E r \in Reqs, q \in ApiQueries, db_fails \in BOOLEAN :
          \E rec \in ScrapedRecords(q) : RefreshScraped(r, rec, db_fails)
    \/ DayPasses

SpecPersist == PersistInit /\ [][PersistNext]_vars

\* C26: the persistence layer holds at most one Query record per normalized
\* (case_type, case_number, year).
C26_OneQueryPerCase ==
    \A i, j \in 1..Len(queries) :
        QueryOf(queries[i]) = QueryOf(queries[j]) => i = j

\* C27: no Query record stays pending: once every handler and every
\* background task of the run has ended, with a response, an HTTP 500 or
\* an HTTP 404, every Query record that was put into pending has reached
\* completed or failed.
C27_NoQueryLeftPending ==
    (\A r \in Reqs : task[r].pc \in {"done", "http500", "http404"}) =>
        \A i \in 1..Len(queries) : queries[i].status \in {"completed", "failed"}

\* C28: a Query record whose status is completed has a Case record, and the
\* query a search returned by the database short-cut has one.
C28_CompletedHasCase ==
    /\ \A i \in 1..Len(queries) :
          queries[i].status = "completed" => GetCaseByQuery(cases, i) # 0
    /\ \A r \in Reqs :
          (task[r].kind = "search" /\ task[r].pc = "done" /\ task[r].scrape = "none")
          => GetCaseByQuery(cases, task[r].query_id) # 0

\* C29: the scrape of a background refresh task misses the cache (and so
\* goes to the portals), whatever the other handlers did between the
\* invalidation and the start of the task.
C29_RefreshMissesCache ==
    \A r \in Reqs :
        (task[r].kind = "refresh" /\ task[r].scrape # "none")
        => task[r].scrape = "miss"

====
